---- MODULE Spec2Model ----
(***************************************************************************)
(* A model of the mdmodels-macro schema-to-type-shape compiler             *)
(* (src/src/lib.rs): the type mapper, the field wrapper, the builder and    *)
(* serde attribute synthesizers, the enum synthesizer, the name validator   *)
(* and the parse_mdmodel driver with its two loops.                         *)
(*                                                                         *)
(* Text is modelled as a sequence of one-character strings, so that the    *)
(* identifier check of Ident::new and the word splitting of to_case can be *)
(* computed character by character.                                        *)
(***************************************************************************)
EXTENDS Integers, Sequences, FiniteSets, TLC

\* ------------------------------------------------------------------ bounds
\* Longest free-form text drawn for type names and candidate names.
MaxLen == 2
\* Longest enum mapping key drawn.
MaxKeyLen == 2
\* Most entries in one enum mapping.
MaxKeys == 2
\* Most objects / attributes per object / enums in one model.
MaxObjects == 2
MaxAttrs == 1
MaxEnums == 1

\* -------------------------------------------------------------- characters
LowerSeq == <<"a","b","c","d","e","f","g","h","i","j","k","l","m",
              "n","o","p","q","r","s","t","u","v","w","x","y","z">>
UpperSeq == <<"A","B","C","D","E","F","G","H","I","J","K","L","M",
              "N","O","P","Q","R","S","T","U","V","W","X","Y","Z">>
DigitSeq == <<"0","1","2","3","4","5","6","7","8","9">>

Range(f) == {f[i] : i \in DOMAIN f}

Lower == Range(LowerSeq)
Upper == Range(UpperSeq)
Digit == Range(DigitSeq)

\* The ASCII order of the characters used, for the byte-wise order of String.
AsciiSeq == <<" ", "-">> \o DigitSeq \o UpperSeq \o <<"_">> \o LowerSeq

Ord(c) == CHOOSE i \in DOMAIN AsciiSeq : AsciiSeq[i] = c

IndexIn(seq, c) == CHOOSE i \in DOMAIN seq : seq[i] = c

ToUpperChar(c) == IF c \in Lower THEN UpperSeq[IndexIn(LowerSeq, c)] ELSE c
ToLowerChar(c) == IF c \in Upper THEN LowerSeq[IndexIn(UpperSeq, c)] ELSE c

\* All texts over the alphabet cs of length at most n.
RECURSIVE TextsOfLen(_, _)
TextsOfLen(cs, n) ==
    IF n = 0 THEN {<<>>}
    ELSE {Append(t, c) : t \in TextsOfLen(cs, n - 1), c \in cs}

TextsUpTo(cs, n) == UNION {TextsOfLen(cs, k) : k \in 0..n}

\* Byte-wise lexicographic order of two texts (Ord for String, the order of
\* BTreeMap<String, _>).
RECURSIVE TextLess(_, _)
TextLess(s, t) ==
    IF Len(t) = 0 THEN FALSE
    ELSE IF Len(s) = 0 THEN TRUE
    ELSE IF s[1] # t[1] THEN Ord(s[1]) < Ord(t[1])
    ELSE TextLess(Tail(s), Tail(t))

\* ------------------------------------------------- identifiers (Ident::new)
\* Ident::new panics unless the text is an identifier: not empty, starting
\* with a letter or an underscore, continuing with letters, digits or
\* underscores.
ValidIdent(s) ==
    /\ Len(s) > 0
    /\ s[1] \in Lower \cup Upper \cup {"_"}
    /\ \A i \in 2..Len(s) : s[i] \in Lower \cup Upper \cup Digit \cup {"_"}

\* ------------------------------------------------------- static variables
FORBIDDEN_NAMES_without_enum ==
    << <<"t","y","p","e">>, <<"s","t","r","u","c","t">>,
       <<"u","s","e">>, <<"c","r","a","t","e">>, <<"m","o","d">>,
       <<"f","n">>, <<"i","m","p","l">>, <<"t","r","a","i","t">> >>

FORBIDDEN_NAMES ==
    << <<"t","y","p","e">>, <<"s","t","r","u","c","t">>, <<"e","n","u","m">>,
       <<"u","s","e">>, <<"c","r","a","t","e">>, <<"m","o","d">>,
       <<"f","n">>, <<"i","m","p","l">>, <<"t","r","a","i","t">> >>

INTEGER == <<"i","n","t","e","g","e","r">>
FLOAT == <<"f","l","o","a","t">>
STRING_ == <<"s","t","r","i","n","g">>
BOOLEAN_ == <<"b","o","o","l","e","a","n">>

TYPE_MAPPINGS ==
    (INTEGER :> <<"i","3","2">>) @@ (FLOAT :> <<"f","3","2">>)
    @@ (STRING_ :> <<"S","t","r","i","n","g">>) @@ (BOOLEAN_ :> <<"b","o","o","l">>)

\* ------------------------------------------------------------ is_reserved
is_reserved_ignore_case(name) ==
    \E i \in DOMAIN FORBIDDEN_NAMES :
        [k \in DOMAIN name |-> ToLowerChar(name[k])] = FORBIDDEN_NAMES[i]

is_reserved(name) == \E i \in DOMAIN FORBIDDEN_NAMES : FORBIDDEN_NAMES[i] = name

\* ---------------------------------------------------------- get_data_type
Panic == [tag |-> "Panic"]
Ok(v) == [tag |-> "Ok", val |-> v]

BaseType(t) == [kind |-> "BaseType", ty |-> t]
ComplexType(n) == [kind |-> "ComplexType", ty |-> n]

\* syn::parse_str succeeds on each of the four fixed type texts, so the `?`
\* of the Some branch never returns Err; Ident::new of the None branch
\* panics on a text that is no identifier.
get_data_type(dtype) ==
    IF dtype \in DOMAIN TYPE_MAPPINGS
    THEN Ok(BaseType(TYPE_MAPPINGS[dtype]))
    ELSE IF ValidIdent(dtype) THEN Ok(ComplexType(dtype)) ELSE Panic

\* ------------------------------------------------------------- wrap_dtype
\* The emitted type as the list of its generic wrappers, outermost first,
\* around the inner type: T, Option<T>, Vec<T>, Option<Vec<T>>.
Wrapped(ws, dtype) == [wrappers |-> ws, inner |-> dtype.ty]

wrap_dtype_flags_swapped(is_array, required, dtype) ==
    IF is_array /\ ~required THEN Wrapped(<<>>, dtype)
    ELSE IF ~is_array /\ ~required THEN Wrapped(<<"Option">>, dtype)
    ELSE IF dtype.kind = "BaseType" /\ ~is_array THEN Wrapped(<<"Option", "Vec">>, dtype)
    ELSE Wrapped(<<"Vec">>, dtype)

wrap_dtype_symmetric(is_array, required, dtype) ==
    IF required /\ ~is_array THEN Wrapped(<<>>, dtype)
    ELSE IF ~required /\ ~is_array THEN Wrapped(<<"Option">>, dtype)
    ELSE IF required /\ is_array THEN Wrapped(<<"Vec">>, dtype)
    ELSE Wrapped(<<"Option", "Vec">>, dtype)

wrap_dtype(is_array, required, dtype) ==
    IF dtype.kind = "BaseType"
    THEN IF required /\ ~is_array THEN Wrapped(<<>>, dtype)
         ELSE IF ~required /\ ~is_array THEN Wrapped(<<"Option">>, dtype)
         ELSE IF required /\ is_array THEN Wrapped(<<"Vec">>, dtype)
         ELSE Wrapped(<<"Option", "Vec">>, dtype)
    ELSE IF required /\ ~is_array THEN Wrapped(<<>>, dtype)
         ELSE IF ~required /\ ~is_array THEN Wrapped(<<"Option">>, dtype)
         ELSE Wrapped(<<"Vec">>, dtype)

\* ------------------------------------------------------- get_builder_attr
StripOption == [opt |-> "strip_option"]
Each(add_name) == [opt |-> "each", name |-> add_name, into |-> TRUE]

BuilderAttr(setter_args) ==
    [default |-> TRUE, setter |-> <<[opt |-> "into"]>> \o setter_args]

get_builder_attr_strip_always(is_array, required, name) ==
    IF is_array /\ ~ValidIdent(<<"t","o","_">> \o name) THEN Panic
    ELSE Ok(BuilderAttr(<<StripOption>>
            \o (IF is_array THEN <<Each(<<"t","o","_">> \o name)>> ELSE <<>>)))

get_builder_attr(is_array, required, name) ==
    IF is_array /\ ~ValidIdent(<<"t","o","_">> \o name) THEN Panic
    ELSE Ok(BuilderAttr((IF ~required THEN <<StripOption>> ELSE <<>>)
            \o (IF is_array THEN <<Each(<<"t","o","_">> \o name)>> ELSE <<>>)))

\* --------------------------------------------------------- get_serde_attr
\* The set of serde hints on the field.
get_serde_attr_required_first(is_array, required) ==
    IF ~required /\ ~is_array THEN {"skip_serializing_if_none"}
    ELSE IF required THEN {}
    ELSE {"default"}

get_serde_attr(is_array, required) ==
    IF ~required /\ ~is_array THEN {"skip_serializing_if_none"}
    ELSE IF is_array THEN {"default"}
    ELSE {}

\* ------------------------------------------------ to_case (convert_case)
\* Characters that separate words and are dropped.
Delims == {"_", "-", " "}

\* A word boundary between s[i] and s[i+1] that keeps both characters:
\* lower|upper, the four letter|digit boundaries, and the acronym boundary
\* (upper|upper lower).
BoundaryAfter(s, i) ==
    /\ i < Len(s)
    /\ \/ s[i] \in Lower /\ s[i + 1] \in Upper
       \/ s[i] \in Upper /\ s[i + 1] \in Digit
       \/ s[i] \in Digit /\ s[i + 1] \in Upper
       \/ s[i] \in Digit /\ s[i + 1] \in Lower
       \/ s[i] \in Lower /\ s[i + 1] \in Digit
       \/ /\ i + 2 <= Len(s)
          /\ s[i] \in Upper /\ s[i + 1] \in Upper /\ s[i + 2] \in Lower

\* Empty words are dropped.
Flush(words, cur) == IF cur = <<>> THEN words ELSE Append(words, cur)

RECURSIVE SplitFrom(_, _, _, _)
SplitFrom(s, i, cur, words) ==
    IF i > Len(s) THEN Flush(words, cur)
    ELSE IF s[i] \in Delims THEN SplitFrom(s, i + 1, <<>>, Flush(words, cur))
    ELSE IF BoundaryAfter(s, i)
         THEN SplitFrom(s, i + 1, <<>>, Flush(words, Append(cur, s[i])))
         ELSE SplitFrom(s, i + 1, Append(cur, s[i]), words)

SplitWords(s) == SplitFrom(s, 1, <<>>, <<>>)

\* Pattern::Capital and Pattern::Lowercase on one word.
Capital(w) ==
    [k \in DOMAIN w |-> IF k = 1 THEN ToUpperChar(w[k]) ELSE ToLowerChar(w[k])]
Lowercase(w) == [k \in DOMAIN w |-> ToLowerChar(w[k])]

RECURSIVE Join(_, _)
Join(words, delim) ==
    IF words = <<>> THEN <<>>
    ELSE IF Len(words) = 1 THEN words[1]
    ELSE words[1] \o delim \o Join(Tail(words), delim)

to_snake(name) ==
    Join([k \in DOMAIN SplitWords(name) |-> Lowercase(SplitWords(name)[k])], <<"_">>)

to_camel(name) ==
    Join([k \in DOMAIN SplitWords(name) |-> Capital(SplitWords(name)[k])], <<>>)

\* ---------------------------------------------------------- generate_enum
\* The keys of a BTreeMap in iteration order: ascending, byte-wise.
RECURSIVE SortedKeys(_)
SortedKeys(keys) ==
    IF keys = {} THEN <<>>
    ELSE LET least == CHOOSE k \in keys : \A o \in keys \ {k} : TextLess(k, o)
         IN <<least>> \o SortedKeys(keys \ {least})

\* The variant pushed for a key: the first iteration marks it #[default].
EnumVariant(index, variant_name) == [default |-> index = 0, ident |-> variant_name]

\* The Display arm pushed for a key.
EnumArm(variant_name, value) == [variant |-> variant_name, value |-> value]

NextIndex_never_incremented(index) == index

\* index += 1 happens in the first iteration only.
NextIndex(index) == IF index = 0 THEN index + 1 ELSE index

\* The loop over the mapping; Ident::new panics on a transformed key that is
\* no identifier.
RECURSIVE enum_loop(_, _, _, _, _)
enum_loop(mappings, keys, index, variants, values) ==
    IF keys = <<>> THEN Ok([variants |-> variants, values |-> values])
    ELSE LET key == Head(keys)
             variant_name == to_camel(key)
         IN IF ~ValidIdent(variant_name) THEN Panic
            ELSE enum_loop(mappings, Tail(keys), NextIndex(index),
                           Append(variants, EnumVariant(index, variant_name)),
                           Append(values, EnumArm(variant_name, mappings[key])))

generate_enum(mappings, name) ==
    IF ~ValidIdent(name) THEN Panic
    ELSE LET body == enum_loop(mappings, SortedKeys(DOMAIN mappings), 0, <<>>, <<>>)
         IN IF body = Panic THEN Panic
            ELSE Ok([name |-> name, variants |-> body.val.variants,
                     arms |-> body.val.values])

\* ================================================================== state
None == [tag |-> "None"]

VARIABLES
    model,       \* the DataModel handed over by the loader (never mutated)
    pc,          \* position of parse_mdmodel
    model_name,  \* the namespace identifier
    obj,         \* index of the object the outer loop is at
    attr,        \* index of the attribute the inner loop is at
    en,          \* index of the enum the enum loop is at
    fields,      \* fields / getters / setters of the object in progress
    getters,
    setters,
    structs,     \* struct definitions pushed so far
    enums,       \* enum definitions pushed so far
    result,      \* the TokenStream returned, None until then
    log,         \* history: the name checks and synthesis steps, in order
    call,        \* arguments of a component called on its own
    ret,         \* what its steps have returned so far
    stage        \* position of the component called on its own

runVars == <<model, pc, model_name, obj, attr, en, fields, getters, setters,
             structs, enums, result, log>>
callVars == <<call, ret, stage>>
vars == <<runVars, callVars>>

\* ----------------------------------------------------------------- inputs
Text_Obj == <<"O","b","j">>
Text_type == <<"t","y","p","e">>
Text_Kind == <<"K","i","n","d">>
Text_enum == <<"e","n","u","m">>
Text_Nested == <<"N","e","s","t","e","d">>
Text_value == <<"v","a","l","u","e">>
Text_items == <<"i","t","e","m","s">>
Text_model == <<"m","o","d","e","l">>
Text_TestModel == <<"T","e","s","t"," ","M","o","d","e","l">>
Text_2D == <<"2","D">>
Text_my_type == <<"m","y"," ","t","y","p","e">>

SeqsUpTo(S, n) == UNION {[1..k -> S] : k \in 0..n}

AttrPool ==
    { [name |-> Text_value, dtypes |-> <<STRING_>>,
       is_array |-> FALSE, required |-> TRUE],
      [name |-> Text_items, dtypes |-> <<Text_Nested, STRING_>>,
       is_array |-> TRUE, required |-> FALSE],
      [name |-> Text_value, dtypes |-> <<Text_my_type>>,
       is_array |-> FALSE, required |-> FALSE] }

ObjectPool ==
    [name : {Text_Obj, Text_type}, attributes : SeqsUpTo(AttrPool, MaxAttrs)]

EnumPool ==
    [name : {Text_Kind, Text_enum},
     mappings : { (<<"a">> :> "alpha") @@ (<<"b">> :> "beta") }]

Models ==
    [name : {None, Text_TestModel, Text_2D},
     objects : SeqsUpTo(ObjectPool, MaxObjects),
     enums : SeqsUpTo(EnumPool, MaxEnums)]

IdleRun ==
    /\ model = None /\ pc = "idle" /\ model_name = None
    /\ obj = 0 /\ attr = 0 /\ en = 0
    /\ fields = <<>> /\ getters = <<>> /\ setters = <<>>
    /\ structs = <<>> /\ enums = <<>> /\ result = None /\ log = <<>>

IdleCall == call = None /\ ret = None /\ stage = "idle"

\* ========================================================== parse_mdmodel
Init ==
    /\ model \in Models
    /\ pc = "start"
    /\ model_name = None
    /\ obj = 0 /\ attr = 0 /\ en = 0
    /\ fields = <<>> /\ getters = <<>> /\ setters = <<>>
    /\ structs = <<>> /\ enums = <<>>
    /\ result = None
    /\ log = <<>>
    /\ IdleCall

\* A panic unwinds out of the macro: nothing is returned.
Abort ==
    /\ pc' = "aborted"
    /\ UNCHANGED <<model, model_name, obj, attr, en, fields, getters, setters,
                   structs, enums, result>>

CheckEvent(kind, idx) == [ev |-> "check", kind |-> kind, idx |-> idx]
SynthEvent(kind, idx, step) ==
    [ev |-> "synth", kind |-> kind, idx |-> idx, step |-> step]

\* The namespace identifier and the empty list of structs.
Start ==
    /\ pc = "start"
    /\ LET name == to_snake(IF model.name = None THEN Text_model ELSE model.name)
       IN IF ~ValidIdent(name)
          THEN Abort /\ UNCHANGED log
          ELSE /\ model_name' = name
               /\ structs' = <<>>
               /\ obj' = 1
               /\ pc' = "objects"
               /\ UNCHANGED <<model, attr, en, fields, getters, setters, enums,
                              result, log>>
    /\ UNCHANGED callVars

ObjectBegin_unchecked ==
    /\ pc = "objects"
    /\ obj <= Len(model.objects)
    /\ IF ~ValidIdent(model.objects[obj].name)
       THEN Abort /\ UNCHANGED log
       ELSE /\ fields' = <<>> /\ getters' = <<>> /\ setters' = <<>>
            /\ attr' = 1
            /\ pc' = "attributes"
            /\ UNCHANGED <<model, model_name, obj, en, structs, enums, result, log>>
    /\ UNCHANGED callVars

\* Head of the object loop: the name check, the struct identifier and the
\* empty lists of the object.
ObjectBegin ==
    /\ pc = "objects"
    /\ obj <= Len(model.objects)
    /\ log' = Append(log, CheckEvent("object", obj))
    /\ IF is_reserved(model.objects[obj].name) \/ ~ValidIdent(model.objects[obj].name)
       THEN Abort
       ELSE /\ fields' = <<>> /\ getters' = <<>> /\ setters' = <<>>
            /\ attr' = 1
            /\ pc' = "attributes"
            /\ UNCHANGED <<model, model_name, obj, en, structs, enums, result>>
    /\ UNCHANGED callVars

\* The field pushed for an attribute, or Panic.
Field(attribute) ==
    IF ~ValidIdent(attribute.name) \/ Len(attribute.dtypes) = 0 THEN Panic
    ELSE LET field_type == get_data_type(attribute.dtypes[1])
             builder_attr ==
                 get_builder_attr(attribute.is_array, attribute.required, attribute.name)
         IN IF field_type = Panic \/ builder_attr = Panic THEN Panic
            ELSE Ok([builder_attr |-> builder_attr.val,
                     serde_attr |-> get_serde_attr(attribute.is_array, attribute.required),
                     field_name |-> attribute.name,
                     wrapped_type |-> wrap_dtype(attribute.is_array,
                                                 attribute.required, field_type.val)])

Getter(attribute, field) ==
    [name |-> <<"g","e","t","_">> \o attribute.name,
     returns |-> field.wrapped_type, reads |-> field.field_name]

Setter(attribute, field) ==
    [name |-> <<"s","e","t","_">> \o attribute.name,
     value |-> field.wrapped_type, writes |-> field.field_name]

\* One iteration of the attribute loop.
AttributeStep ==
    /\ pc = "attributes"
    /\ attr <= Len(model.objects[obj].attributes)
    /\ LET attribute == model.objects[obj].attributes[attr]
           field == Field(attribute)
       IN /\ log' = Append(log, SynthEvent("object", obj, "attribute"))
          /\ IF field = Panic
             THEN Abort
             ELSE /\ fields' = Append(fields, field.val)
                  /\ getters' = Append(getters, Getter(attribute, field.val))
                  /\ setters' = Append(setters, Setter(attribute, field.val))
                  /\ attr' = attr + 1
                  /\ UNCHANGED <<model, pc, model_name, obj, en, structs, enums, result>>
    /\ UNCHANGED callVars

\* The struct definition of the object, pushed after its last attribute.
StructDef ==
    /\ pc = "attributes"
    /\ attr > Len(model.objects[obj].attributes)
    /\ structs' = Append(structs, [name |-> model.objects[obj].name, fields |-> fields,
                                   getters |-> getters, setters |-> setters])
    /\ log' = Append(log, SynthEvent("object", obj, "struct"))
    /\ obj' = obj + 1
    /\ pc' = "objects"
    /\ UNCHANGED <<model, model_name, attr, en, fields, getters, setters, enums, result>>
    /\ UNCHANGED callVars

\* The object loop is over: the empty list of enums.
ObjectsDone ==
    /\ pc = "objects"
    /\ obj > Len(model.objects)
    /\ enums' = <<>>
    /\ en' = 1
    /\ pc' = "enums"
    /\ UNCHANGED <<model, model_name, obj, attr, fields, getters, setters, structs,
                   result, log>>
    /\ UNCHANGED callVars

\* One iteration of the enum loop: the name check, then generate_enum.
EnumStep ==
    /\ pc = "enums"
    /\ en <= Len(model.enums)
    /\ IF is_reserved(model.enums[en].name)
       THEN Abort /\ log' = Append(log, CheckEvent("enum", en))
       ELSE LET generated == generate_enum(model.enums[en].mappings, model.enums[en].name)
            IN /\ log' = log \o <<CheckEvent("enum", en), SynthEvent("enum", en, "enum")>>
               /\ IF generated = Panic
                  THEN Abort
                  ELSE /\ enums' = Append(enums, generated.val)
                       /\ en' = en + 1
                       /\ UNCHANGED <<model, pc, model_name, obj, attr, fields, getters,
                                      setters, structs, result>>
    /\ UNCHANGED callVars

\* The module around all structs and enums is returned.
Assemble ==
    /\ pc = "enums"
    /\ en > Len(model.enums)
    /\ result' = Ok([name |-> model_name, structs |-> structs, enums |-> enums])
    /\ pc' = "done"
    /\ UNCHANGED <<model, model_name, obj, attr, en, fields, getters, setters, structs,
                   enums, log>>
    /\ UNCHANGED callVars

Next ==
    \/ Start
    \/ ObjectBegin
    \/ AttributeStep
    \/ StructDef
    \/ ObjectsDone
    \/ EnumStep
    \/ Assemble

Spec == Init /\ [][Next]_vars

\* ============================================ one attribute, step by step
\* The body of the attribute loop on one attribute, one call per step:
\* get_data_type, wrap_dtype, get_builder_attr, get_serde_attr.
DTypeChars == {"a", "B", "_", "1", " "}

DTypeTexts ==
    {INTEGER, FLOAT, STRING_, BOOLEAN_, Text_Nested, Text_type, Text_my_type,
     <<"I","n","t","e","g","e","r">>, <<"i","n","t">>, <<"i","3","2">>,
     <<"f","l","o","a","t","s">>}
    \cup TextsUpTo(DTypeChars, MaxLen)

\* Attribute names are identifiers: the loop makes the field identifier
\* from the name before anything else is called.
Attributes ==
    [name : {Text_value, Text_items}, dtypes : {<<d>> : d \in DTypeTexts},
     is_array : BOOLEAN, required : BOOLEAN]

NoField ==
    [field_type |-> None, wrapped_type |-> None, builder_attr |-> None,
     serde_attr |-> None]

InitAttr ==
    /\ IdleRun
    /\ call \in Attributes
    /\ ret = NoField
    /\ stage = "get_data_type"

CallGetDataType ==
    /\ stage = "get_data_type"
    /\ LET field_type == get_data_type(call.dtypes[1])
       IN /\ ret' = [ret EXCEPT !.field_type = field_type]
          /\ stage' = IF field_type = Panic THEN "panicked" ELSE "wrap_dtype"
    /\ UNCHANGED <<call, runVars>>

CallWrapDtype ==
    /\ stage = "wrap_dtype"
    /\ ret' = [ret EXCEPT !.wrapped_type =
                   wrap_dtype(call.is_array, call.required, ret.field_type.val)]
    /\ stage' = "get_builder_attr"
    /\ UNCHANGED <<call, runVars>>

CallGetBuilderAttr ==
    /\ stage = "get_builder_attr"
    /\ LET builder_attr == get_builder_attr(call.is_array, call.required, call.name)
       IN /\ ret' = [ret EXCEPT !.builder_attr = builder_attr]
          /\ stage' = IF builder_attr = Panic THEN "panicked" ELSE "get_serde_attr"
    /\ UNCHANGED <<call, runVars>>

CallGetSerdeAttr ==
    /\ stage = "get_serde_attr"
    /\ ret' = [ret EXCEPT !.serde_attr =
                   Ok(get_serde_attr(call.is_array, call.required))]
    /\ stage' = "field"
    /\ UNCHANGED <<call, runVars>>

NextAttr ==
    \/ CallGetDataType
    \/ CallWrapDtype
    \/ CallGetBuilderAttr
    \/ CallGetSerdeAttr

SpecAttr == InitAttr /\ [][NextAttr]_vars

\* ================================================= one enum, step by step
\* The body of the enum loop on one enum: is_reserved, then generate_enum.
KeyChars == {"a", "A", "_"}
Keys == TextsUpTo(KeyChars, MaxKeyLen)
Values == {"alpha", "beta"}

RECURSIVE KeySetsUpTo(_)
KeySetsUpTo(n) ==
    IF n = 0 THEN {{}}
    ELSE KeySetsUpTo(n - 1) \cup {S \cup {k} : S \in KeySetsUpTo(n - 1), k \in Keys}

Mappings == UNION {[K -> Values] : K \in KeySetsUpTo(MaxKeys)}

EnumDefs == [name : {Text_Kind, Text_enum}, mappings : Mappings]

NoEnum == [reserved |-> None, generated |-> None]

InitEnum ==
    /\ IdleRun
    /\ call \in EnumDefs
    /\ ret = NoEnum
    /\ stage = "is_reserved"

CallEnumIsReserved ==
    /\ stage = "is_reserved"
    /\ ret' = [ret EXCEPT !.reserved = Ok(is_reserved(call.name))]
    /\ stage' = IF is_reserved(call.name) THEN "panicked" ELSE "generate_enum"
    /\ UNCHANGED <<call, runVars>>

CallGenerateEnum ==
    /\ stage = "generate_enum"
    /\ LET generated == generate_enum(call.mappings, call.name)
       IN /\ ret' = [ret EXCEPT !.generated = generated]
          /\ stage' = IF generated = Panic THEN "panicked" ELSE "pushed"
    /\ UNCHANGED <<call, runVars>>

NextEnum ==
    \/ CallEnumIsReserved
    \/ CallGenerateEnum

SpecEnum == InitEnum /\ [][NextEnum]_vars

\* ====================================================== one candidate name
UpperText(w) == [k \in DOMAIN w |-> ToUpperChar(w[k])]

NameChars == {"f", "n", "F"}

CandidateNames ==
    UNION {{w, Capital(w), UpperText(w), Append(w, "s"), SubSeq(w, 1, Len(w) - 1)} :
           w \in Range(FORBIDDEN_NAMES)}
    \cup {Text_Obj, Text_Kind}
    \cup TextsUpTo(NameChars, MaxLen)

InitName ==
    /\ IdleRun
    /\ call \in [name : CandidateNames]
    /\ ret = None
    /\ stage = "is_reserved"

CallIsReserved ==
    /\ stage = "is_reserved"
    /\ ret' = Ok(is_reserved(call.name))
    /\ stage' = "returned"
    /\ UNCHANGED <<call, runVars>>

NextName == CallIsReserved

SpecName == InitName /\ [][NextName]_vars

\* ================================================================= claims
\* The decision table of the field wrapper, by shape name.
TableShape(kind, required, is_array) ==
    IF required /\ ~is_array THEN "Bare"
    ELSE IF ~required /\ ~is_array THEN "Optional"
    ELSE IF required /\ is_array THEN "Sequence"
    ELSE IF kind = "BaseType" THEN "OptionalSequence"
    ELSE "Sequence"

ShapeWrappers(shape) ==
    CASE shape = "Bare" -> <<>>
      [] shape = "Optional" -> <<"Option">>
      [] shape = "Sequence" -> <<"Vec">>
      [] shape = "OptionalSequence" -> <<"Option", "Vec">>

\* C1: for every resolved type kind and every (required, is_array), the
\* type returned by wrap_dtype is the shape the decision table gives,
\* around the resolved type: Bare, Optional, Sequence, and for a
\* non-required array OptionalSequence of a primitive but Sequence of a
\* reference.
C1_WrapMatchesTable ==
    ret.wrapped_type # None =>
        ret.wrapped_type =
            [wrappers |-> ShapeWrappers(TableShape(ret.field_type.val.kind,
                                                   call.required, call.is_array)),
             inner |-> ret.field_type.val.ty]

C1_Witness ==
    /\ stage = "field"
    /\ ret.field_type.val.kind = "ComplexType"
    /\ call.is_array /\ ~call.required
    /\ ret.wrapped_type.wrappers = <<"Vec">>

\* C2: for every type-name text, get_data_type returns (never panics, never
\* errs) the primitive i32, f32, String or bool for integer, float, string
\* or boolean, and a reference to that same name for every other text.
C2_MapperTotal ==
    ret.field_type # None =>
        /\ ret.field_type.tag = "Ok"
        /\ ret.field_type.val =
              IF call.dtypes[1] = <<"i","n","t","e","g","e","r">>
                  THEN [kind |-> "BaseType", ty |-> <<"i","3","2">>]
              ELSE IF call.dtypes[1] = <<"f","l","o","a","t">>
                  THEN [kind |-> "BaseType", ty |-> <<"f","3","2">>]
              ELSE IF call.dtypes[1] = <<"s","t","r","i","n","g">>
                  THEN [kind |-> "BaseType", ty |-> <<"S","t","r","i","n","g">>]
              ELSE IF call.dtypes[1] = <<"b","o","o","l","e","a","n">>
                  THEN [kind |-> "BaseType", ty |-> <<"b","o","o","l">>]
              ELSE [kind |-> "ComplexType", ty |-> call.dtypes[1]]

\* The nine reserved words, as the specification lists them.
ReservedWords ==
    { <<"t","y","p","e">>, <<"s","t","r","u","c","t">>, <<"e","n","u","m">>,
      <<"u","s","e">>, <<"c","r","a","t","e">>, <<"m","o","d">>, <<"f","n">>,
      <<"i","m","p","l">>, <<"t","r","a","i","t">> }

\* C3: is_reserved rejects a candidate name if and only if it is exactly,
\* case-sensitively, one of the nine reserved words.
C3_ReservedExactlyNine ==
    stage = "returned" => (ret.val <=> call.name \in ReservedWords)

C3_Witness ==
    /\ stage = "returned"
    /\ call.name = <<"T","y","p","e">>
    /\ ret.val = FALSE

HasReservedName ==
    \/ \E i \in DOMAIN model.objects : model.objects[i].name \in ReservedWords
    \/ \E j \in DOMAIN model.enums : model.enums[j].name \in ReservedWords

\* parse_mdmodel has a step left to take.
Running == pc \in {"start", "objects", "attributes", "enums"}

\* C4: a model with a reserved object or enum name at any position never
\* yields a module: its run returns nothing and, once it has no step left,
\* is aborted; and whatever is returned holds a definition for every
\* object and every enum of the model.
C4_ReservedAbortsWhole ==
    /\ HasReservedName =>
          /\ result = None
          /\ pc # "done"
          /\ (~Running => pc = "aborted")
    /\ result # None =>
          /\ pc = "done"
          /\ Len(result.val.structs) = Len(model.objects)
          /\ Len(result.val.enums) = Len(model.enums)

C4_Witness ==
    /\ pc = "aborted"
    /\ Len(model.objects) = 2
    /\ Len(structs) = 2
    /\ Len(model.enums) = 1
    /\ model.enums[1].name = <<"e","n","u","m">>
    /\ result = None

LeastKey(keys) == CHOOSE k \in keys : \A o \in keys \ {k} : TextLess(k, o)

DefaultVariants(generated) ==
    {i \in DOMAIN generated.variants : generated.variants[i].default}

\* C5: the enum generated from a non-empty mapping has exactly one variant
\* marked default, the one derived from the smallest key.
C5_DefaultIsLeastKey ==
    (stage = "pushed" /\ DOMAIN call.mappings # {}) =>
        /\ Cardinality(DefaultVariants(ret.generated.val)) = 1
        /\ \A i \in DefaultVariants(ret.generated.val) :
              ret.generated.val.variants[i].ident = to_camel(LeastKey(DOMAIN call.mappings))

C5_Witness ==
    /\ stage = "pushed"
    /\ DOMAIN call.mappings = {<<"a">>, <<"a", "A">>}
    /\ ret.generated.val.variants =
          <<[default |-> TRUE, ident |-> <<"A">>],
            [default |-> FALSE, ident |-> <<"A", "A">>]>>

ArmsOf(generated, v) == {i \in DOMAIN generated.arms : generated.arms[i].variant = v}

\* C6: every generated enum has exactly one Display arm per variant, no
\* variant twice, and the arm of the variant derived from key k yields the
\* mapping's value for k.
C6_DisplayExhaustive ==
    stage = "pushed" =>
        /\ \A i \in DOMAIN ret.generated.val.variants :
              /\ Cardinality(ArmsOf(ret.generated.val,
                                    ret.generated.val.variants[i].ident)) = 1
              /\ \A j \in DOMAIN ret.generated.val.variants :
                    ret.generated.val.variants[j].ident
                        = ret.generated.val.variants[i].ident => j = i
        /\ \A k \in DOMAIN call.mappings :
              \A a \in ArmsOf(ret.generated.val, to_camel(k)) :
                  ret.generated.val.arms[a].value = call.mappings[k]
        /\ Len(ret.generated.val.arms) = Cardinality(DOMAIN call.mappings)

\* C7: the serde hint is "omit when absent" exactly for a non-required
\* non-array field, "default when absent" exactly for an array, none
\* exactly for a required non-array field, and never both.
C7_SerdeHint ==
    ret.serde_attr # None =>
        /\ ("skip_serializing_if_none" \in ret.serde_attr.val
               <=> (~call.required /\ ~call.is_array))
        /\ ("default" \in ret.serde_attr.val <=> call.is_array)
        /\ (ret.serde_attr.val = {} <=> (call.required /\ ~call.is_array))
        /\ Cardinality(ret.serde_attr.val) <= 1

C7_Witness ==
    /\ stage = "field"
    /\ call.is_array /\ call.required
    /\ ret.serde_attr.val = {"default"}

EachArgs(builder_attr) ==
    {i \in DOMAIN builder_attr.setter : builder_attr.setter[i].opt = "each"}

\* C8: the builder descriptor always has default and an into setter, has
\* strip_option exactly when the field is not required, and has exactly one
\* each(name = to_<name>, into) exactly when the field is an array.
C8_BuilderDescriptor ==
    ret.builder_attr # None =>
        /\ ret.builder_attr.tag = "Ok"
        /\ ret.builder_attr.val.default
        /\ ret.builder_attr.val.setter[1] = [opt |-> "into"]
        /\ (\E i \in DOMAIN ret.builder_attr.val.setter :
               ret.builder_attr.val.setter[i] = [opt |-> "strip_option"])
             <=> ~call.required
        /\ Cardinality(EachArgs(ret.builder_attr.val)) = IF call.is_array THEN 1 ELSE 0
        /\ \A i \in EachArgs(ret.builder_attr.val) :
              ret.builder_attr.val.setter[i] =
                  [opt |-> "each", name |-> <<"t","o","_">> \o call.name, into |-> TRUE]
        /\ Len(ret.builder_attr.val.setter) =
              1 + (IF call.required THEN 0 ELSE 1) + (IF call.is_array THEN 1 ELSE 0)

C8_Witness ==
    /\ stage = "field"
    /\ call.is_array /\ ~call.required
    /\ call.name = <<"i","t","e","m","s">>
    /\ ret.builder_attr.val.setter =
          <<[opt |-> "into"], [opt |-> "strip_option"],
            [opt |-> "each", name |-> <<"t","o","_","i","t","e","m","s">>, into |-> TRUE]>>

Entities ==
    ({"object"} \X DOMAIN model.objects) \cup ({"enum"} \X DOMAIN model.enums)

Checks(e) == {i \in DOMAIN log : log[i] = CheckEvent(e[1], e[2])}

\* C9 as claimed: a run checks each object and enum name exactly once, and
\* no synthesis step is executed while some object or enum name of the
\* model is still unchecked.
C9_AllChecksBeforeSynthesis ==
    /\ pc = "done" => \A e \in Entities : Cardinality(Checks(e)) = 1
    /\ \A i \in DOMAIN log :
          log[i].ev = "synth" =>
              \A e \in Entities : \E j \in 1..(i - 1) : j \in Checks(e)

\* C9 as amended: no name is checked twice, a run that completes has
\* checked every name exactly once, and every synthesis step of an object
\* or enum comes after the check of that same object's or enum's name.
C9_CheckedBeforeOwnSynthesis ==
    /\ \A e \in Entities : Cardinality(Checks(e)) <= 1
    /\ pc = "done" => \A e \in Entities : Cardinality(Checks(e)) = 1
    /\ \A i \in DOMAIN log :
          log[i].ev = "synth" =>
              \E j \in 1..(i - 1) : log[j] = CheckEvent(log[i].kind, log[i].idx)

C9_Witness ==
    /\ pc = "done"
    /\ Len(model.objects) = 2
    /\ Len(model.objects[1].attributes) = 1
    /\ Len(model.enums) = 1
    /\ log[1] = CheckEvent("object", 1)
    /\ log[2] = SynthEvent("object", 1, "attribute")
    /\ \E j \in 3..Len(log) : log[j] = CheckEvent("object", 2)

HasStrip ==
    \E i \in DOMAIN ret.builder_attr.val.setter :
        ret.builder_attr.val.setter[i] = [opt |-> "strip_option"]

\* C10 as claimed: the builder descriptor requests strip_option only when
\* the type wrap_dtype gave the same attribute has Option outermost.
C10_StripOnlyOnOptional ==
    stage = "field" =>
        (HasStrip => (ret.wrapped_type.wrappers # <<>>
                      /\ ret.wrapped_type.wrappers[1] = "Option"))

\* C10 as amended: strip_option is requested exactly when the attribute is
\* not required; the wrapped type then has Option outermost, except for an
\* array of a reference type, whose type is Vec<T> with no Option to strip;
\* a required attribute has neither strip_option nor Option.
C10_StripAgreesExceptReferenceArray ==
    stage = "field" =>
        /\ HasStrip <=> ~call.required
        /\ (HasStrip /\ ~(ret.field_type.val.kind = "ComplexType" /\ call.is_array)) =>
              (ret.wrapped_type.wrappers # <<>>
               /\ ret.wrapped_type.wrappers[1] = "Option")
        /\ (HasStrip /\ ret.field_type.val.kind = "ComplexType" /\ call.is_array) =>
              ret.wrapped_type.wrappers = <<"Vec">>
        /\ ~HasStrip => \A i \in DOMAIN ret.wrapped_type.wrappers :
                            ret.wrapped_type.wrappers[i] # "Option"

C10_Witness ==
    /\ stage = "field"
    /\ HasStrip
    /\ ret.field_type.val = [kind |-> "ComplexType", ty |-> <<"N","e","s","t","e","d">>]
    /\ call.is_array
    /\ ret.wrapped_type = [wrappers |-> <<"Vec">>, inner |-> <<"N","e","s","t","e","d">>]
====
